---- MODULE Spec2Model ----
(***************************************************************************)
(* Wildfire hotspot ingestion pipeline (NasaService and its callers).      *)
(*                                                                         *)
(* The relational store is modelled as three tables with their SERIAL      *)
(* sequences and UNIQUE constraints (initializeTables).  Every             *)
(* client.query of saveFireData runs outside BEGIN/COMMIT, so each         *)
(* statement is its own transaction: a statement either takes effect       *)
(* whole or raises an error and changes nothing but the sequence.          *)
(*                                                                         *)
(* Coordinates are integers in units of 1e-4 degree; instants are integer  *)
(* seconds counted from 2024-01-01T00:00:00Z.                              *)
(*                                                                         *)
(* Spec and SpecConc follow saveFireData and the fetchAndSaveData script;  *)
(* SpecFetch follows one getMaranhaoFireData activation source by source,  *)
(* SpecGeocode one reverseGeocode activation statement by statement, and   *)
(* SpecPipeline successive runs of the script over payloads with rows      *)
(* outside the region.                                                     *)
(***************************************************************************)
EXTENDS Integers, Sequences, FiniteSets, TLC

\* ---------------------------------------------------------------- bounds
MaxBatch == 2
MaxOps == 2
MaxRows == 2
MaxCycles == 3
MaxRequests == 2

\* ------------------------------------------------------------- constants
\* the time value of an Invalid Date (new Date of an unparseable string)
NaN == 0 - 999999999

\* a missing / falsy JavaScript value (undefined, null, '')
Null == "null"

\* a bug: a region that reaches across the equator
BoundsAcrossEquator ==
    [north |-> 10000, south |-> 0 - 104675,
     west |-> 0 - 474748, east |-> 0 - 411000]

MARANHAO_STATE_BOUNDS ==
    [north |-> 0 - 2813, south |-> 0 - 104675,
     west |-> 0 - 474748, east |-> 0 - 411000]

\* source labels handed to saveFireData ('ALL_SOURCES' by fetchAndSaveData)
Sources == {"ALL_SOURCES", "MODIS_NRT"}

\* --------------------------------------------------------- input domains
Latitudes == {0 - 50000, 0 - 40000}
Longitudes == {0 - 450000}
AcquisitionDates == {0, 1, NaN}

\* two resolved variants of a detection: measurements and locality differ
Variants ==
    {[brightness |-> 3000, confidence |-> 80, municipality |-> "Imperatriz"],
     [brightness |-> 3200, confidence |-> 50, municipality |-> Null]}

\* resolved detections, in the shape getMaranhaoFireData pushes
Fires ==
    {[latitude |-> la, longitude |-> lo, acquisition_date |-> t,
      brightness |-> v.brightness, scan |-> 4, track |-> 4, frp |-> 12,
      daynight |-> "D", type |-> "hotspot", version |-> "1.0",
      confidence |-> v.confidence,
      municipality |-> v.municipality, state |-> "MA"] :
        la \in Latitudes, lo \in Longitudes, t \in AcquisitionDates,
        v \in Variants}

RECURSIVE SeqsUpTo(_, _)
SeqsUpTo(S, n) ==
    IF n = 0 THEN {<<>>}
    ELSE LET shorter == SeqsUpTo(S, n - 1)
         IN shorter \cup {Append(s, x) : s \in {q \in shorter : Len(q) = n - 1},
                                          x \in S}

Batches == SeqsUpTo(Fires, MaxBatch)

\* ------------------------------------------------------------------ state
RunIds == {1, 2}

VARIABLES
    db,        \* the relational store: tables and their id sequences
    run,       \* per saveFireData activation: arguments, position and locals
    pipeline,  \* the last fetchAndSaveData run: what it was served, its end
    nops,      \* operations started so far: saveFireData calls, script runs
    fetch,     \* an activation of getMaranhaoFireData, statement by statement
    geocode,   \* an activation of reverseGeocode, statement by statement
    scheduler, \* the server's daily timer: clock, pending timers, runs
    fetchAll,  \* an activation of fetchAllSatelliteData
    pools,     \* the two connection pools and the operation using them
    schema     \* a fresh NasaService: initializeTables and a first query

vars ==
    <<db, run, pipeline, nops, fetch, geocode, scheduler, fetchAll, pools,
      schema>>

\* the store right after initializeTables on an empty database
EmptyDb ==
    [fire_locations |-> {}, satellite_data |-> {}, fire_incidents |-> {},
     fire_locations_id_seq |-> 1, satellite_data_id_seq |-> 1,
     fire_incidents_id_seq |-> 1]

\* ------------------------------------------------- the SQL statements used
\* INSERT INTO satellite_data ... ON CONFLICT (source, satellite, instrument)
\* DO NOTHING RETURNING id: no row is returned when the row already exists.
\* nextval is taken before the conflict is detected.
InsertSatelliteData(d, source) ==
    LET exists == \E r \in d.satellite_data :
                      r.source = source /\ r.satellite = source
                      /\ r.instrument = source
        id == d.satellite_data_id_seq
        d1 == [d EXCEPT !.satellite_data_id_seq = id + 1]
    IN IF exists
       THEN [db |-> d1, rows |-> <<>>]
       ELSE [db |-> [d1 EXCEPT !.satellite_data = @ \cup
                        {[id |-> id, source |-> source, satellite |-> source,
                          instrument |-> source]}],
             rows |-> <<[id |-> id]>>]

\* the rows of a set of ids, as the array result.rows
RECURSIVE RowsOf(_)
RowsOf(ids) ==
    IF ids = {} THEN <<>>
    ELSE LET m == CHOOSE x \in ids : \A y \in ids : x <= y
         IN <<[id |-> m]>> \o RowsOf(ids \ {m})

\* SELECT id FROM fire_locations WHERE latitude = $1 AND longitude = $2
SelectLocation(d, latitude, longitude) ==
    RowsOf({r.id : r \in {l \in d.fire_locations :
                l.latitude = latitude /\ l.longitude = longitude}})

\* INSERT INTO fire_locations ... RETURNING id, under UNIQUE(latitude, longitude)
InsertLocation(d, latitude, longitude, state, municipality) ==
    LET id == d.fire_locations_id_seq
        d1 == [d EXCEPT !.fire_locations_id_seq = id + 1]
    IN IF SelectLocation(d, latitude, longitude) # <<>>
       THEN [db |-> d1, error |-> TRUE, rows |-> <<>>]
       ELSE [db |-> [d1 EXCEPT !.fire_locations = @ \cup
                        {[id |-> id, latitude |-> latitude,
                          longitude |-> longitude, state |-> state,
                          municipality |-> municipality]}],
             error |-> FALSE, rows |-> <<[id |-> id]>>]

\* SELECT id FROM fire_incidents WHERE location_id = $1 AND
\* acquisition_date = $2 AND satellite_id = $3.  An Invalid Date parameter is
\* not a timestamp literal: the statement is rejected.
SelectIncident(d, locationId, acquisition_date, satelliteId) ==
    IF acquisition_date = NaN
    THEN [error |-> TRUE, rows |-> <<>>]
    ELSE [error |-> FALSE,
          rows |-> RowsOf({r.id : r \in {f \in d.fire_incidents :
                       f.location_id = locationId
                       /\ f.acquisition_date = acquisition_date
                       /\ f.satellite_id = satelliteId}})]

\* the row INSERT INTO fire_incidents stores for a detection
IncidentRow(id, locationId, satelliteId, fire) ==
    [id |-> id, location_id |-> locationId, satellite_id |-> satelliteId,
     acquisition_date |-> fire.acquisition_date,
     brightness |-> fire.brightness, scan |-> fire.scan,
     track |-> fire.track, frp |-> fire.frp, daynight |-> fire.daynight,
     type |-> fire.type, version |-> fire.version,
     confidence |-> fire.confidence]

\* INSERT INTO fire_incidents (...) VALUES ($1..$11), under
\* UNIQUE(location_id, satellite_id, acquisition_date)
InsertIncident(d, locationId, satelliteId, fire) ==
    LET id == d.fire_incidents_id_seq
        d1 == [d EXCEPT !.fire_incidents_id_seq = id + 1]
        conflict == \E f \in d.fire_incidents :
                        /\ f.location_id = locationId
                        /\ f.satellite_id = satelliteId
                        /\ f.acquisition_date = fire.acquisition_date
    IN IF fire.acquisition_date = NaN
       THEN [db |-> d, error |-> TRUE]
       ELSE IF conflict
       THEN [db |-> d1, error |-> TRUE]
       ELSE [db |-> [d1 EXCEPT !.fire_incidents = @ \cup
                        {IncidentRow(id, locationId, satelliteId, fire)}],
             error |-> FALSE]

\* fire.state || 'MA' and fire.municipality || 'Unknown'
OrDefault(value, default) == IF value = Null THEN default ELSE value

\* ------------------------------------------------------------ saveFireData
\* One activation of saveFireData is a record l: its arguments, the statement
\* it will execute next (pc) and its local variables.  Each operator below is
\* the code between two awaited store round-trips and returns the store and
\* the activation after it.
IdleRun ==
    [pc |-> "idle", n |-> 0, fires |-> <<>>, source |-> Null, i |-> 0,
     satelliteId |-> 0, locationId |-> 0, locationCheck |-> <<>>,
     fireCheck |-> <<>>, failures |-> 0, errors |-> {}, result |-> 0]

\* call entry: pool.connect() and the first statement is about to be issued;
\* n numbers the activations
Enter(n, fires, source) ==
    [IdleRun EXCEPT !.pc = "satellite", !.n = n, !.fires = fires,
                    !.source = source]

\* a bug: the function returns the number of detections that did not fail
NextFireCountingSaved(l) ==
    LET l1 == [l EXCEPT !.i = l.i + 1, !.locationId = 0,
                        !.locationCheck = <<>>, !.fireCheck = <<>>]
    IN IF l1.i > Len(l.fires)
       THEN [l1 EXCEPT !.pc = "returned",
                       !.result = Len(l.fires) - l.failures]
       ELSE [l1 EXCEPT !.pc = "locationCheck"]

\* the for loop moves to the next detection, or the function returns
\* fires.length once the batch is exhausted (finally: client.release())
NextFire(l) ==
    LET l1 == [l EXCEPT !.i = l.i + 1, !.locationId = 0,
                        !.locationCheck = <<>>, !.fireCheck = <<>>]
    IN IF l1.i > Len(l.fires)
       THEN [l1 EXCEPT !.pc = "returned", !.result = Len(l.fires)]
       ELSE [l1 EXCEPT !.pc = "locationCheck"]

\* SQLSTATE of the errors the store raises here
UniqueViolation == "23505"
InvalidDatetime == "22007"

\* a bug: the error leaves the loop and reaches the outer catch, which rethrows
CatchFireRethrow(l, error) ==
    [l EXCEPT !.failures = l.failures + 1, !.errors = l.errors \cup {error},
              !.pc = "thrown"]

\* a bug: break instead of continue
CatchFireBreak(l, error) ==
    [l EXCEPT !.failures = l.failures + 1, !.errors = l.errors \cup {error},
              !.pc = "returned", !.result = Len(l.fires)]

\* catch (error) { console.error(...); continue; } of the loop body
CatchFire(l, error) ==
    NextFire([l EXCEPT !.failures = l.failures + 1,
                       !.errors = l.errors \cup {error}])

\* the satellite_data upsert and satelliteData.rows[0].id: reading .id of
\* undefined is a TypeError, which the outer catch logs and rethrows
EnsureSatellite(d, l) ==
    LET satelliteData == InsertSatelliteData(d, l.source)
    IN IF Len(satelliteData.rows) = 0
       THEN [db |-> satelliteData.db, l |-> [l EXCEPT !.pc = "thrown"]]
       ELSE [db |-> satelliteData.db,
             l |-> NextFire([l EXCEPT !.satelliteId = satelliteData.rows[1].id])]

\* const locationCheck = await client.query(SELECT id FROM fire_locations ...)
LocationCheck(d, l) ==
    LET fire == l.fires[l.i]
    IN [db |-> d,
        l |-> [l EXCEPT !.locationCheck =
                            SelectLocation(d, fire.latitude, fire.longitude),
                        !.pc = "locationEnsure"]]

\* a bug: an upsert that overwrites the locality of the existing row
LocationEnsureOverwrite(d, l) ==
    LET fire == l.fires[l.i]
        old == {x \in d.fire_locations : x.latitude = fire.latitude
                                         /\ x.longitude = fire.longitude}
        ins == InsertLocation(d, fire.latitude, fire.longitude,
                              OrDefault(fire.state, "MA"),
                              OrDefault(fire.municipality, "Unknown"))
    IN IF old = {}
       THEN IF Len(l.locationCheck) = 0
            THEN [db |-> ins.db,
                  l |-> [l EXCEPT !.locationId = ins.rows[1].id,
                                  !.pc = "fireCheck"]]
            ELSE [db |-> d, l |-> CatchFire(l, UniqueViolation)]
       ELSE [db |-> [d EXCEPT !.fire_locations = (@ \ old) \cup
                        {[x EXCEPT !.municipality =
                              OrDefault(fire.municipality, "Unknown")] :
                         x \in old}],
             l |-> [l EXCEPT !.locationId = (CHOOSE x \in old : TRUE).id,
                             !.pc = "fireCheck"]]

\* if (locationCheck.rows.length === 0) INSERT ... else reuse rows[0].id
LocationEnsure(d, l) ==
    LET fire == l.fires[l.i]
        ins == InsertLocation(d, fire.latitude, fire.longitude,
                              OrDefault(fire.state, "MA"),
                              OrDefault(fire.municipality, "Unknown"))
    IN IF Len(l.locationCheck) = 0
       THEN IF ins.error
            THEN [db |-> ins.db, l |-> CatchFire(l, UniqueViolation)]
            ELSE [db |-> ins.db,
                  l |-> [l EXCEPT !.locationId = ins.rows[1].id,
                                  !.pc = "fireCheck"]]
       ELSE [db |-> d,
             l |-> [l EXCEPT !.locationId = l.locationCheck[1].id,
                             !.pc = "fireCheck"]]

\* const fireCheck = await client.query(SELECT id FROM fire_incidents ...)
FireCheck(d, l) ==
    LET fire == l.fires[l.i]
        chk == SelectIncident(d, l.locationId, fire.acquisition_date,
                              l.satelliteId)
    IN IF chk.error
       THEN [db |-> d, l |-> CatchFire(l, InvalidDatetime)]
       ELSE [db |-> d,
             l |-> [l EXCEPT !.fireCheck = chk.rows, !.pc = "fireEnsure"]]

\* a bug: a bare INSERT, with neither the check nor the unique index
FireEnsureUnkeyed(d, l) ==
    LET id == d.fire_incidents_id_seq
    IN [db |-> [d EXCEPT !.fire_incidents_id_seq = id + 1,
                         !.fire_incidents = @ \cup
                            {IncidentRow(id, l.locationId, l.satelliteId,
                                         l.fires[l.i])}],
        l |-> NextFire(l)]

\* a bug: an existing incident is updated in place with the new measurements
FireEnsureUpdate(d, l) ==
    LET ins == InsertIncident(d, l.locationId, l.satelliteId, l.fires[l.i])
        old == {f \in d.fire_incidents : \E k \in 1..Len(l.fireCheck) :
                                            f.id = l.fireCheck[k].id}
    IN IF Len(l.fireCheck) = 0
       THEN [db |-> ins.db,
             l |-> IF ins.error THEN CatchFire(l, UniqueViolation)
                   ELSE NextFire(l)]
       ELSE [db |-> [d EXCEPT !.fire_incidents = (@ \ old) \cup
                        {IncidentRow(f.id, f.location_id, f.satellite_id,
                                     l.fires[l.i]) : f \in old}],
             l |-> NextFire(l)]

\* if (fireCheck.rows.length === 0) INSERT INTO fire_incidents ...
FireEnsure(d, l) ==
    LET ins == InsertIncident(d, l.locationId, l.satelliteId, l.fires[l.i])
    IN IF Len(l.fireCheck) = 0
       THEN [db |-> ins.db,
             l |-> IF ins.error THEN CatchFire(l, UniqueViolation)
                   ELSE NextFire(l)]
       ELSE [db |-> d, l |-> NextFire(l)]

Ended(l) == l.pc \in {"returned", "thrown"}

\* the next statement of an activation
Step(d, l) ==
    CASE l.pc = "satellite" -> EnsureSatellite(d, l)
      [] l.pc = "locationCheck" -> LocationCheck(d, l)
      [] l.pc = "locationEnsure" -> LocationEnsure(d, l)
      [] l.pc = "fireCheck" -> FireCheck(d, l)
      [] l.pc = "fireEnsure" -> FireEnsure(d, l)

\* an activation run to its end with no other client of the store active
RECURSIVE RunToEnd(_, _)
RunToEnd(d, l) ==
    IF Ended(l) THEN [db |-> d, l |-> l]
    ELSE LET s == Step(d, l) IN RunToEnd(s.db, s.l)

SaveFireDataAs(n, d, fires, source) == RunToEnd(d, Enter(n, fires, source))

SaveFireData(d, fires, source) == SaveFireDataAs(0, d, fires, source)

\* ------------------------------------------------------ getMaranhaoFireData
\* ids of SATELLITE_SOURCES, in declaration order
SATELLITE_SOURCES ==
    <<"VIIRS_SNPP_NRT", "VIIRS_NOAA20_NRT", "MODIS_NRT", "VIIRS_SNPP_SP",
      "VIIRS_NOAA20_SP", "MODIS_SP">>

SecondsPerDay == 86400

\* new Date(text).getTime(), in seconds; an unparseable text gives NaN
DateOf(text) ==
    CASE text = "2024-01-01" -> 0
      [] text = "2024-01-02" -> SecondsPerDay
      [] text = "2023-12-01" -> 0 - 31 * SecondsPerDay
      [] OTHER -> NaN

\* parseFloat(text), in units of 1e-4: the longest numeric prefix is parsed;
\* no leading number gives NaN
ParseFloat(text) ==
    CASE text = "-5.0" -> 0 - 50000
      [] text = "-45.0" -> 0 - 450000
      [] text = "300.5" -> 3005000
      [] text = "310.0" -> 3100000
      [] text = "290.1" -> 2901000
      [] text = "0.4" -> 4000
      [] text = "1.2" -> 12000
      [] text = "10.0" -> 100000
      [] text = "-11.0" -> 0 - 110000
      [] text = "-48.0" -> 0 - 480000
      [] text = "-40.0" -> 0 - 400000
      [] text = "-5.0abc" -> 0 - 50000
      [] OTHER -> NaN

\* parseInt(text); no leading integer gives NaN
ParseInt(text) ==
    CASE text = "80" -> 80
      [] text = "50" -> 50
      [] OTHER -> NaN

\* a bug: the parsed value is used as it is
rawParseFloat(value) == ParseFloat(value)

safeParseFloat(value) == IF ParseFloat(value) = NaN THEN 0 ELSE ParseFloat(value)

safeParseInt(value) == IF ParseInt(value) = NaN THEN 0 ELSE ParseInt(value)

\* Date comparison with < and >: false whenever an operand is an Invalid Date
DateLess(a, b) == a # NaN /\ b # NaN /\ a < b

\* fire[header.trim()] = values[index]?.trim() || null, read back by name
Field(headers, values, name) ==
    LET ks == {k \in 1..Len(headers) : headers[k] = name}
    IN IF ks = {} THEN Null
       ELSE LET k == CHOOSE x \in ks : \A y \in ks : y <= x
            IN IF k > Len(values) \/ values[k] = "" THEN Null ELSE values[k]

\* a bug: only the latitude is compared
OutsideBoundsLatitudeOnly(latitude, longitude) ==
    \/ latitude < MARANHAO_STATE_BOUNDS.south
    \/ latitude > MARANHAO_STATE_BOUNDS.north

OutsideBounds(latitude, longitude) ==
    \/ latitude < MARANHAO_STATE_BOUNDS.south
    \/ latitude > MARANHAO_STATE_BOUNDS.north
    \/ longitude < MARANHAO_STATE_BOUNDS.west
    \/ longitude > MARANHAO_STATE_BOUNDS.east

\* the Locality Index (server/data/cities.js), in index order
cities ==
    <<[name |-> "São Luís", latitude |-> 0 - 25307, longitude |-> 0 - 443068],
      [name |-> "Imperatriz", latitude |-> 0 - 55264, longitude |-> 0 - 474917],
      [name |-> "Caxias", latitude |-> 0 - 48590, longitude |-> 0 - 433560]>>

toLowerCase(text) ==
    CASE text = "São Luís" -> "são luís"
      [] text = "Imperatriz" -> "imperatriz"
      [] text = "IMPERATRIZ" -> "imperatriz"
      [] text = "Caxias" -> "caxias"
      [] text = "Teresina" -> "teresina"
      [] OTHER -> text

\* dx * dx + dy * dy from a point to a city, as <<hi, lo>> with the value
\* hi * 10000 + lo and lo < 10000, so that no product exceeds 32 bits.
\* Squared distances are compared; sqrt is monotone.
SquaredDistance(latitude, longitude, city) ==
    LET dx == IF latitude < city.latitude THEN city.latitude - latitude
              ELSE latitude - city.latitude
        dy == IF longitude < city.longitude THEN city.longitude - longitude
              ELSE longitude - city.longitude
        a == dx \div 100
        b == dx % 100
        e == dy \div 100
        f == dy % 100
        lo == 200 * a * b + b * b + 200 * e * f + f * f
    IN <<a * a + e * e + lo \div 10000, lo % 10000>>

\* distance < minDistance
DistanceLess(p, q) == p[1] < q[1] \/ (p[1] = q[1] /\ p[2] < q[2])

\* the nearest-city scan over an index: strict < keeps the earliest of
\* equidistant cities
RECURSIVE ClosestCityIn(_, _, _, _, _)
ClosestCityIn(index, latitude, longitude, k, best) ==
    IF k > Len(index) THEN best
    ELSE LET dist(c) == SquaredDistance(latitude, longitude, c)
         IN IF best = 0 \/ DistanceLess(dist(index[k]), dist(index[best]))
            THEN ClosestCityIn(index, latitude, longitude, k + 1, k)
            ELSE ClosestCityIn(index, latitude, longitude, k + 1, best)

ClosestCity(latitude, longitude, k, best) ==
    ClosestCityIn(cities, latitude, longitude, k, best)

\* what the Nominatim request can come to: a failure (non-2xx, network
\* error, bad body) or an address with a city/town/village name
NominatimReplies ==
    {[kind |-> "error", city |-> Null],
     [kind |-> "address", city |-> "IMPERATRIZ"],
     [kind |-> "address", city |-> "Teresina"]}

\* the value null where reverseGeocode returns no locality
NoLocality == [state |-> Null, municipality |-> Null]

\* an activation of reverseGeocode over a Locality Index, before its first
\* statement; reply is what its Nominatim request would come to
GeocodeEnter(index, latitude, longitude, reply) ==
    [pc |-> "bounds", index |-> index, latitude |-> latitude,
     longitude |-> longitude, reply |-> reply, requests |-> 0,
     result |-> NoLocality]

\* a bug: no bounds check before the request
GeocodeBoundsUnchecked(g) == [g EXCEPT !.pc = "request"]

\* First check if the point is within Maranhão's bounds: return null
GeocodeBounds(g) ==
    IF OutsideBounds(g.latitude, g.longitude)
    THEN [g EXCEPT !.pc = "returned", !.result = NoLocality]
    ELSE [g EXCEPT !.pc = "request"]

\* data.address.city || data.address.town || data.address.village ||
\* data.address.hamlet; a field the address does not carry is undefined
MunicipalityOf(reply) ==
    LET field(name) == IF name \in DOMAIN reply THEN reply[name] ELSE Null
    IN OrDefault(field("city"),
                 OrDefault(field("town"),
                           OrDefault(field("village"), field("hamlet"))))

\* the indexed cities whose name equals the replied one, case-insensitively
MatchingCities(g) ==
    {k \in 1..Len(g.index) :
        /\ g.reply.kind = "address"
        /\ MunicipalityOf(g.reply) # Null
        /\ toLowerCase(g.index[k].name)
              = toLowerCase(MunicipalityOf(g.reply))}

\* a bug: a failed request is not caught
GeocodeRequestUncaught(g) ==
    LET matching == MatchingCities(g)
    IN IF g.reply.kind \notin {"address", "no_address"}
       THEN [g EXCEPT !.requests = @ + 1, !.pc = "thrown"]
       ELSE IF matching # {}
       THEN [g EXCEPT !.requests = @ + 1, !.pc = "returned",
                      !.result = [state |-> "MA",
                                  municipality |->
                                      g.index[CHOOSE k \in matching :
                                          \A j \in matching : k <= j].name]]
       ELSE [g EXCEPT !.requests = @ + 1, !.pc = "fallback"]

\* the inner try: fetch(url), response.json(), cities.find(...); every
\* failure is caught and falls through to the scan
GeocodeRequest(g) ==
    LET matching == MatchingCities(g)
    IN IF matching # {}
       THEN [g EXCEPT !.requests = @ + 1, !.pc = "returned",
                      !.result = [state |-> "MA",
                                  municipality |->
                                      g.index[CHOOSE k \in matching :
                                          \A j \in matching : k <= j].name]]
       ELSE [g EXCEPT !.requests = @ + 1, !.pc = "fallback"]

\* a bug: the scan compares with <=, so the last of equidistant cities wins
RECURSIVE LastClosestCityIn(_, _, _, _, _)
LastClosestCityIn(index, latitude, longitude, k, best) ==
    IF k > Len(index) THEN best
    ELSE LET dist(c) == SquaredDistance(latitude, longitude, c)
         IN IF best = 0 \/ ~DistanceLess(dist(index[best]), dist(index[k]))
            THEN LastClosestCityIn(index, latitude, longitude, k + 1, k)
            ELSE LastClosestCityIn(index, latitude, longitude, k + 1, best)

\* a bug: the fallback returns the last of equidistant cities
GeocodeFallbackLast(g) ==
    LET closest == LastClosestCityIn(g.index, g.latitude, g.longitude, 1, 0)
    IN [g EXCEPT !.pc = "returned",
                 !.result = IF closest = 0 THEN NoLocality
                            ELSE [state |-> "MA",
                                  municipality |-> g.index[closest].name]]

\* Find the closest city from our cities data; null for an empty index
GeocodeFallback(g) ==
    LET closest == ClosestCityIn(g.index, g.latitude, g.longitude, 1, 0)
    IN [g EXCEPT !.pc = "returned",
                 !.result = IF closest = 0 THEN NoLocality
                            ELSE [state |-> "MA",
                                  municipality |-> g.index[closest].name]]

IdleGeocode ==
    [pc |-> "idle", index |-> <<>>, latitude |-> 0, longitude |-> 0,
     reply |-> [kind |-> "error", city |-> Null], requests |-> 0,
     result |-> NoLocality]

GeocodeEnded(g) == g.pc \in {"returned", "thrown"}

\* the next statement of an activation of reverseGeocode
GeocodeStep(g) ==
    CASE g.pc = "bounds" -> GeocodeBounds(g)
      [] g.pc = "request" -> GeocodeRequest(g)
      [] g.pc = "fallback" -> GeocodeFallback(g)

RECURSIVE GeocodeToEnd(_)
GeocodeToEnd(g) == IF GeocodeEnded(g) THEN g ELSE GeocodeToEnd(GeocodeStep(g))

\* reverseGeocode over an index, given the reply of the service
reverseGeocodeIn(index, latitude, longitude, reply) ==
    GeocodeToEnd(GeocodeEnter(index, latitude, longitude, reply)).result

\* reverseGeocode(latitude, longitude), given the reply of the service
reverseGeocode(latitude, longitude, reply) ==
    reverseGeocodeIn(cities, latitude, longitude, reply)

\* source.id.split('_')[0]
InstrumentOf(source) ==
    CASE source \in {"MODIS_NRT", "MODIS_SP"} -> "MODIS"
      [] OTHER -> "VIIRS"

\* a bug: rows are not compared with the header for their number of fields
ParseRowAnyWidth(headers, values, source, startDate, endDate, geo) ==
    LET F(name) == Field(headers, values, name)
        acquisition_date == DateOf(F("acq_date"))
        latitude == safeParseFloat(F("latitude"))
        longitude == safeParseFloat(F("longitude"))
        municipalityInfo ==
            reverseGeocode(latitude, longitude, geo[<<latitude, longitude>>])
    IN IF F("acq_date") = Null THEN <<>>
       ELSE IF DateLess(acquisition_date, startDate)
               \/ DateLess(endDate, acquisition_date) THEN <<>>
       ELSE IF latitude = NaN \/ longitude = NaN THEN <<>>
       ELSE IF OutsideBounds(latitude, longitude) THEN <<>>
       ELSE IF municipalityInfo = NoLocality THEN <<>>
       ELSE <<[latitude |-> latitude, longitude |-> longitude,
               acquisition_date |-> acquisition_date,
               brightness |-> safeParseFloat(OrDefault(F("bright_ti4"),
                                                       F("brightness"))),
               scan |-> safeParseFloat(F("scan")),
               track |-> safeParseFloat(F("track")),
               satellite |-> OrDefault(F("satellite"), source),
               instrument |-> OrDefault(F("instrument"), InstrumentOf(source)),
               confidence |-> safeParseInt(F("confidence")),
               frp |-> safeParseFloat(F("frp")),
               daynight |-> OrDefault(F("daynight"), "D"),
               type |-> "hotspot", version |-> "1.0",
               municipality |-> municipalityInfo.municipality,
               state |-> municipalityInfo.state]>>

\* the body of the row loop for one line; <<>> when the row is skipped
ParseRow(headers, values, source, startDate, endDate, geo) ==
    LET F(name) == Field(headers, values, name)
        acquisition_date == DateOf(F("acq_date"))
        latitude == safeParseFloat(F("latitude"))
        longitude == safeParseFloat(F("longitude"))
        municipalityInfo ==
            reverseGeocode(latitude, longitude, geo[<<latitude, longitude>>])
    IN IF Len(values) # Len(headers) THEN <<>>
       ELSE IF F("acq_date") = Null THEN <<>>
       ELSE IF DateLess(acquisition_date, startDate)
               \/ DateLess(endDate, acquisition_date) THEN <<>>
       ELSE IF latitude = NaN \/ longitude = NaN THEN <<>>
       ELSE IF OutsideBounds(latitude, longitude) THEN <<>>
       ELSE IF municipalityInfo = NoLocality THEN <<>>
       ELSE <<[latitude |-> latitude, longitude |-> longitude,
               acquisition_date |-> acquisition_date,
               brightness |-> safeParseFloat(OrDefault(F("bright_ti4"),
                                                       F("brightness"))),
               scan |-> safeParseFloat(F("scan")),
               track |-> safeParseFloat(F("track")),
               satellite |-> OrDefault(F("satellite"), source),
               instrument |-> OrDefault(F("instrument"), InstrumentOf(source)),
               confidence |-> safeParseInt(F("confidence")),
               frp |-> safeParseFloat(F("frp")),
               daynight |-> OrDefault(F("daynight"), "D"),
               type |-> "hotspot", version |-> "1.0",
               municipality |-> municipalityInfo.municipality,
               state |-> municipalityInfo.state]>>

RECURSIVE ParseLines(_, _, _, _, _, _)
ParseLines(lines, i, source, startDate, endDate, geo) ==
    IF i > Len(lines) THEN <<>>
    ELSE ParseRow(lines[1], lines[i], source, startDate, endDate, geo)
         \o ParseLines(lines, i + 1, source, startDate, endDate, geo)

\* the loop over SATELLITE_SOURCES from source k on; upstream[id] is what
\* the request for a source comes to.  A rejected fetch leaves the function
\* through the outer catch, which rethrows.
RECURSIVE FetchSources(_, _, _, _, _)
FetchSources(k, upstream, startDate, endDate, geo) ==
    IF k > Len(SATELLITE_SOURCES) THEN [thrown |-> FALSE, fires |-> <<>>]
    ELSE LET source == SATELLITE_SOURCES[k]
             response == upstream[source]
             rest == FetchSources(k + 1, upstream, startDate, endDate, geo)
         IN IF response.kind = "network_error"
            THEN [thrown |-> TRUE, fires |-> <<>>]
            ELSE IF response.kind = "http_error" THEN rest
            ELSE [thrown |-> rest.thrown,
                  fires |-> IF rest.thrown THEN <<>>
                            ELSE ParseLines(response.lines, 2, source,
                                            startDate, endDate, geo)
                                 \o rest.fires]

getMaranhaoFireData(startDate, endDate, upstream, geo) ==
    FetchSources(1, upstream, startDate, endDate, geo)

\* date.toISOString().split('T')[0], as a day number
DayOf(date) == date \div SecondsPerDay

\* the day range segment of the request URL (.../${north}/10)
DayRange == 10

\* an activation of getMaranhaoFireData before the first source; upstream
\* and geo are what its requests would come to
FetchEnter(startDate, endDate, upstream, geo) ==
    [pc |-> "loop", startDate |-> startDate, endDate |-> endDate,
     upstream |-> upstream, geo |-> geo, k |-> 1, requests |-> <<>>,
     allFires |-> <<>>]

IdleFetch ==
    [pc |-> "idle", startDate |-> 0, endDate |-> 0, upstream |-> <<>>,
     geo |-> <<>>, k |-> 1, requests |-> <<>>, allFires |-> <<>>]

\* one pass of the loop over SATELLITE_SOURCES: the request for source k
\* is issued, and its rows are parsed when the response is ok; after the
\* last source the function returns allFires
FetchLoop(f) ==
    IF f.k > Len(SATELLITE_SOURCES) THEN [f EXCEPT !.pc = "returned"]
    ELSE LET source == SATELLITE_SOURCES[f.k]
             response == f.upstream[source]
             requested ==
                 [f EXCEPT !.requests =
                     Append(@, [source |-> source, dayRange |-> DayRange,
                                begin |-> DayOf(f.startDate),
                                end |-> DayOf(f.endDate)])]
         IN IF response.kind = "network_error"
            THEN [requested EXCEPT !.pc = "thrown"]
            ELSE IF response.kind = "http_error"
            THEN [requested EXCEPT !.k = @ + 1]
            ELSE [requested EXCEPT
                     !.k = @ + 1,
                     !.allFires = @ \o ParseLines(response.lines, 2, source,
                                                  f.startDate, f.endDate,
                                                  f.geo)]

FetchEnded(f) == f.pc \in {"returned", "thrown"}

\* what the caller of an ended activation gets
FetchResult(f) ==
    [thrown |-> f.pc = "thrown",
     fires |-> IF f.pc = "returned" THEN f.allFires ELSE <<>>]

\* -------------------------------------------------- what the services serve
Headers ==
    <<"latitude", "longitude", "bright_ti4", "scan", "track", "acq_date",
      "acq_time", "satellite", "instrument", "confidence", "version",
      "bright_ti5", "frp", "daynight">>

RawRows ==
    {<<"-5.0", "-45.0", b, "0.4", "0.4", date, time, "N", "VIIRS", "80",
       "2.0NRT", "290.1", "1.2", "D">> :
        b \in {"300.5"},
        date \in {"2024-01-01", "2024-01-02", "n/a"},
        time \in {"04:12:00", "04:12:01"}}

HeaderOnly == [kind |-> "ok", lines |-> <<Headers>>]

Responses ==
    {[kind |-> "ok", lines |-> <<Headers>> \o rows] :
        rows \in SeqsUpTo(RawRows, MaxRows)}
    \cup {[kind |-> "http_error", lines |-> <<>>],
          [kind |-> "network_error", lines |-> <<>>]}

\* the first source is served anything, the second one of three answers,
\* the others an empty table
Upstreams ==
    {[s \in {SATELLITE_SOURCES[k] : k \in 1..Len(SATELLITE_SOURCES)} |->
         IF s = SATELLITE_SOURCES[1] THEN a
         ELSE IF s = SATELLITE_SOURCES[2] THEN b
         ELSE HeaderOnly] :
     a \in Responses,
     b \in {HeaderOnly, [kind |-> "http_error", lines |-> <<>>],
            [kind |-> "network_error", lines |-> <<>>]}}

GeoPoints == {<<0 - 50000, 0 - 450000>>}
Geos == [GeoPoints -> NominatimReplies]

\* the instant fetchAndSaveData runs at: 2024-01-01T12:00:00Z
Nows == {43200}

\* ------------------------------------------- the activities not yet begun
\* the server before app.listen: no timer, no run
IdleScheduler == [pc |-> "off", now |-> 0, timers |-> <<>>, running |-> 0,
                  fired |-> 0, outcomes |-> <<>>]

IdleFetchAll ==
    [pc |-> "idle", k |-> 1, startDate |-> 0, endDate |-> 0,
     upstream |-> <<>>, geo |-> <<>>, events |-> <<>>, allFires |-> <<>>]

\* the operations on the pools that may be in flight together
OperationIds == 1..MaxRequests

\* an operation that has not been called: which clients it has acquired
\* from the weather and the fire pool, and which it has released
IdleOperation ==
    [kind |-> "none", pc |-> "idle",
     acquired |-> [weather |-> 0, fire |-> 0],
     released |-> [weather |-> 0, fire |-> 0], outcome |-> "none"]

IdlePools == [i \in OperationIds |-> IdleOperation]

\* no NasaService instance yet: where initializeTables stands, whether the
\* tables are visible to other connections, the process, and the first
\* store query of the instance's caller
IdleSchema ==
    [init |-> "idle", statement |-> 1, fresh |-> TRUE, committed |-> FALSE,
     process |-> "running", caller |-> "idle", operation |-> "none",
     firstQuery |-> "none", observed |-> "none"]

ServerIdle ==
    /\ scheduler = IdleScheduler
    /\ fetchAll = IdleFetchAll
    /\ pools = IdlePools
    /\ schema = IdleSchema

\* ---------------------------------------------------------------- actions
NoPipeline == [upstream |-> <<>>, fires |-> <<>>, outcome |-> "none"]

Init ==
    /\ db = EmptyDb
    /\ run = [r \in RunIds |-> IdleRun]
    /\ pipeline = NoPipeline
    /\ nops = 0
    /\ fetch = IdleFetch
    /\ geocode = IdleGeocode
    /\ ServerIdle

\* one whole saveFireData call, awaited to its end before anything else runs
SaveFireDataCall(fires, source) ==
    /\ nops < MaxOps
    /\ LET r == SaveFireDataAs(nops + 1, db, fires, source)
       IN /\ db' = r.db
          /\ run' = [run EXCEPT ![1] = r.l]
    /\ nops' = nops + 1
    /\ UNCHANGED <<pipeline, fetch, geocode, scheduler, fetchAll, pools, schema>>

\* one whole run of the fetchAndSaveData script: the last 7 days are fetched
\* from every source and the detections saved under the label 'ALL_SOURCES'
fetchAndSaveData(now, upstream, geo) ==
    /\ nops < MaxOps
    /\ nops' = nops + 1
    /\ UNCHANGED <<fetch, geocode, scheduler, fetchAll, pools, schema>>
    /\ LET endDate == now
           startDate == now - 7 * SecondsPerDay
           got == getMaranhaoFireData(startDate, endDate, upstream, geo)
           saved == SaveFireDataAs(nops + 1, db, got.fires, "ALL_SOURCES")
       IN IF got.thrown
          THEN /\ pipeline' = [upstream |-> upstream, fires |-> <<>>,
                               outcome |-> "fetch failed"]
               /\ UNCHANGED <<db, run>>
          ELSE IF Len(got.fires) = 0
          THEN /\ pipeline' = [upstream |-> upstream, fires |-> <<>>,
                               outcome |-> "nothing to save"]
               /\ UNCHANGED <<db, run>>
          ELSE /\ db' = saved.db
               /\ run' = [run EXCEPT ![1] = saved.l]
               /\ pipeline' = [upstream |-> upstream, fires |-> got.fires,
                               outcome |-> IF saved.l.pc = "returned"
                                           THEN "saved" ELSE "save failed"]

Next ==
    \/ \E fires \in Batches, source \in Sources :
           SaveFireDataCall(fires, source)
    \/ \E now \in Nows, upstream \in Upstreams, geo \in Geos :
           fetchAndSaveData(now, upstream, geo)

Spec == Init /\ [][Next]_vars

\* ------------------------------------------- two runs against one store
\* A manual run and another run are separate processes (fetchAndSaveData)
\* sharing the database; their statements interleave at every await.
\* the detections drawn here all lie on one coordinate, where runs can race
ConcFires == {f \in Fires : f.latitude = 0 - 50000}
ConcBatches == SeqsUpTo(ConcFires, MaxBatch)

StartRun(r, fires, source) ==
    /\ nops < MaxOps
    /\ run[r].pc \in {"idle", "returned", "thrown"}
    /\ run' = [run EXCEPT ![r] = Enter(r, fires, source)]
    /\ nops' = nops + 1
    /\ UNCHANGED <<db, pipeline, fetch, geocode, scheduler, fetchAll, pools, schema>>

RunStep(r) ==
    /\ run[r].pc \notin {"idle", "returned", "thrown"}
    /\ LET s == Step(db, run[r])
       IN /\ db' = s.db
          /\ run' = [run EXCEPT ![r] = s.l]
    /\ UNCHANGED <<nops, pipeline, fetch, geocode, scheduler, fetchAll,
                   pools, schema>>

NextConc ==
    \/ \E r \in RunIds, fires \in ConcBatches, source \in Sources :
           StartRun(r, fires, source)
    \/ \E r \in RunIds : RunStep(r)

SpecConc == Init /\ [][NextConc]_vars

\* ------------------------------------ one getMaranhaoFireData activation
\* a row as the service sends it for an in-range detection inside the region
GoodRow ==
    <<"-5.0", "-45.0", "300.5", "0.4", "0.4", "2024-01-01", "04:12:00", "N",
      "VIIRS", "80", "2.0NRT", "290.1", "1.2", "D">>

\* the good row with its fields at the given columns replaced by a text
RowWith(columns, text) ==
    [k \in 1..Len(GoodRow) |-> IF k \in columns THEN text ELSE GoodRow[k]]

\* rows departing from the good one: coordinates empty, not numeric, with
\* a numeric prefix or outside the region; dates outside the 7-day range,
\* not a date or empty; measurements not numeric; too few or too many fields
FetchRows ==
    {GoodRow}
    \cup {RowWith({1}, t) : t \in {"", "abc", "10.0", "-11.0", "-5.0abc"}}
    \cup {RowWith({2}, t) : t \in {"abc", "-48.0", "-40.0"}}
    \cup {RowWith({1, 2}, "abc")}
    \cup {RowWith({6}, t) : t \in {"2023-12-01", "n/a", ""}}
    \cup {RowWith({3}, "abc"), RowWith({3, 4, 5, 10, 13}, "n")}
    \cup {SubSeq(GoodRow, 1, Len(GoodRow) - 1), GoodRow \o <<"x">>}

FetchResponses ==
    {[kind |-> "ok", lines |-> <<Headers>> \o rows] :
        rows \in SeqsUpTo(FetchRows, MaxRows)}
    \cup {[kind |-> "http_error", lines |-> <<>>],
          [kind |-> "network_error", lines |-> <<>>]}

FetchUpstreams ==
    {[s \in {SATELLITE_SOURCES[k] : k \in 1..Len(SATELLITE_SOURCES)} |->
         IF s = SATELLITE_SOURCES[1] THEN a
         ELSE IF s = SATELLITE_SOURCES[2] THEN b
         ELSE HeaderOnly] :
     a \in FetchResponses,
     b \in {HeaderOnly, [kind |-> "http_error", lines |-> <<>>],
            [kind |-> "network_error", lines |-> <<>>]}}

\* every coordinate a row of FetchRows can parse to
ParsedPoints ==
    {<<la, lo>> : la \in {0 - 50000, 0, 100000, 0 - 110000},
                  lo \in {0 - 450000, 0, 0 - 480000, 0 - 400000}}

\* the geocoding service answers every point alike
FetchGeos == {[p \in ParsedPoints |-> r] : r \in NominatimReplies}

\* requested ranges ending at noon of 2024-01-01: the script's 7 days, and
\* 32 days
FetchRanges ==
    {[startDate |-> 43200 - days * SecondsPerDay, endDate |-> 43200] :
        days \in {7, 32}}

InitFetch ==
    /\ db = EmptyDb
    /\ run = [r \in RunIds |-> IdleRun]
    /\ pipeline = NoPipeline
    /\ nops = 0
    /\ geocode = IdleGeocode
    /\ ServerIdle
    /\ fetch \in {FetchEnter(range.startDate, range.endDate, upstream, geo) :
                    range \in FetchRanges, upstream \in FetchUpstreams,
                    geo \in FetchGeos}

\* the request for the next source and the parsing of its payload
FetchSourceStep ==
    /\ fetch.pc = "loop"
    /\ fetch.k <= Len(SATELLITE_SOURCES)
    /\ fetch' = FetchLoop(fetch)
    /\ UNCHANGED <<db, run, pipeline, nops, geocode, scheduler, fetchAll,
                   pools, schema>>

\* return allFires
FetchReturn ==
    /\ fetch.pc = "loop"
    /\ fetch.k > Len(SATELLITE_SOURCES)
    /\ fetch' = FetchLoop(fetch)
    /\ UNCHANGED <<db, run, pipeline, nops, geocode, scheduler, fetchAll,
                   pools, schema>>

NextFetch == FetchSourceStep \/ FetchReturn

SpecFetch == InitFetch /\ [][NextFetch]_vars

\* an ended activation gave what getMaranhaoFireData gives in one piece
FetchAgrees ==
    FetchEnded(fetch) =>
        FetchResult(fetch) = getMaranhaoFireData(fetch.startDate, fetch.endDate,
                                                 fetch.upstream, fetch.geo)

\* ------------------------------------------- one reverseGeocode activation
\* indexes: none, the catalogue, and two cities at equal distance from
\* (-5.0, -45.0) in both orders
Indexes ==
    {<<>>, cities,
     <<[name |-> "Imperatriz", latitude |-> 0 - 60000, longitude |-> 0 - 450000],
       [name |-> "Caxias", latitude |-> 0 - 40000, longitude |-> 0 - 450000]>>,
     <<[name |-> "Caxias", latitude |-> 0 - 40000, longitude |-> 0 - 450000],
       [name |-> "Imperatriz", latitude |-> 0 - 60000, longitude |-> 0 - 450000]>>}

\* points inside the region (two of them on its border) and outside it on
\* each side
GeocodePoints ==
    {<<0 - 50000, 0 - 450000>>, <<0 - 45000, 0 - 450000>>,
     <<MARANHAO_STATE_BOUNDS.north, MARANHAO_STATE_BOUNDS.west>>,
     <<MARANHAO_STATE_BOUNDS.south, MARANHAO_STATE_BOUNDS.east>>,
     <<0, 0>>, <<MARANHAO_STATE_BOUNDS.north + 1, 0 - 450000>>,
     <<MARANHAO_STATE_BOUNDS.south - 1, 0 - 450000>>,
     <<0 - 50000, MARANHAO_STATE_BOUNDS.west - 1>>,
     <<0 - 50000, MARANHAO_STATE_BOUNDS.east + 1>>}

\* every way the Nominatim request can end: non-2xx, fetch rejected (network
\* error, timeout), a body that is not JSON, JSON without address, an
\* address without a place name, with an indexed name, with another name,
\* with a town, a village or a hamlet only, with a city and a town
GeocodeReplies ==
    {[kind |-> k, city |-> Null] :
        k \in {"http_error", "network_error", "bad_body", "no_address",
               "address"}}
    \cup {[kind |-> "address", city |-> c] : c \in {"IMPERATRIZ", "Teresina"}}
    \cup {[kind |-> "address", city |-> Null, town |-> "Caxias"],
          [kind |-> "address", city |-> Null, village |-> "IMPERATRIZ"],
          [kind |-> "address", city |-> Null, hamlet |-> "Imperatriz"],
          [kind |-> "address", city |-> "Teresina", town |-> "Imperatriz"]}

InitGeocode ==
    /\ db = EmptyDb
    /\ run = [r \in RunIds |-> IdleRun]
    /\ pipeline = NoPipeline
    /\ nops = 0
    /\ fetch = IdleFetch
    /\ ServerIdle
    /\ geocode \in {GeocodeEnter(index, p[1], p[2], reply) :
                      index \in Indexes, p \in GeocodePoints,
                      reply \in GeocodeReplies}

GeocodeBoundsStep ==
    /\ geocode.pc = "bounds"
    /\ geocode' = GeocodeStep(geocode)
    /\ UNCHANGED <<db, run, pipeline, nops, fetch, scheduler, fetchAll,
                   pools, schema>>

GeocodeRequestStep ==
    /\ geocode.pc = "request"
    /\ geocode' = GeocodeStep(geocode)
    /\ UNCHANGED <<db, run, pipeline, nops, fetch, scheduler, fetchAll,
                   pools, schema>>

GeocodeFallbackStep ==
    /\ geocode.pc = "fallback"
    /\ geocode' = GeocodeStep(geocode)
    /\ UNCHANGED <<db, run, pipeline, nops, fetch, scheduler, fetchAll,
                   pools, schema>>

NextGeocode == GeocodeBoundsStep \/ GeocodeRequestStep \/ GeocodeFallbackStep

SpecGeocode == InitGeocode /\ [][NextGeocode]_vars

\* --------------------------------------------- pipeline runs, one by one
\* rows inside the region, outside it on each side, and without a latitude
PipelineRows ==
    {GoodRow, RowWith({1}, "10.0"), RowWith({1}, "-11.0"),
     RowWith({2}, "-48.0"), RowWith({2}, "-40.0"), RowWith({1}, "abc")}

PipelineUpstreams ==
    {[s \in {SATELLITE_SOURCES[k] : k \in 1..Len(SATELLITE_SOURCES)} |->
         IF s = SATELLITE_SOURCES[1]
         THEN [kind |-> "ok", lines |-> <<Headers>> \o rows]
         ELSE HeaderOnly] :
     rows \in SeqsUpTo(PipelineRows, MaxRows)}

PipelineGeos == {[p \in ParsedPoints |-> [kind |-> "error", city |-> Null]]}

NextPipeline ==
    \E now \in Nows, upstream \in PipelineUpstreams, geo \in PipelineGeos :
        fetchAndSaveData(now, upstream, geo)

SpecPipeline == Init /\ [][NextPipeline]_vars

\* ------------------------------------------------- fetchAllSatelliteData
\* an activation of getMaranhaoFireData run to its end
RECURSIVE FetchToEnd(_)
FetchToEnd(f) == IF FetchEnded(f) THEN f ELSE FetchToEnd(FetchLoop(f))

\* the sources of a sequence of requests
RECURSIVE SourcesOf(_)
SourcesOf(requests) ==
    IF Len(requests) = 0 THEN <<>>
    ELSE <<requests[1].source>> \o SourcesOf(SubSeq(requests, 2, Len(requests)))

\* setTimeout(resolve, 2000) between two passes of the loop
Delay == "delay"

FetchAllEnter(startDate, endDate, upstream, geo) ==
    [pc |-> "call", k |-> 1, startDate |-> startDate, endDate |-> endDate,
     upstream |-> upstream, geo |-> geo, events |-> <<>>, allFires |-> <<>>]

\* the hotspot service answers the first two sources with an empty table,
\* a non-2xx status, a rejected request or one good row, and the others
\* with an empty table, alike at every request of a run
FetchAllUpstreams ==
    {[s \in {SATELLITE_SOURCES[k] : k \in 1..Len(SATELLITE_SOURCES)} |->
         IF s = SATELLITE_SOURCES[1] THEN a
         ELSE IF s = SATELLITE_SOURCES[2] THEN b
         ELSE HeaderOnly] :
     a, b \in {HeaderOnly, [kind |-> "http_error", lines |-> <<>>],
               [kind |-> "network_error", lines |-> <<>>],
               [kind |-> "ok", lines |-> <<Headers, GoodRow>>]}}

InitFetchAll ==
    /\ db = EmptyDb
    /\ run = [r \in RunIds |-> IdleRun]
    /\ pipeline = NoPipeline
    /\ nops = 0
    /\ fetch = IdleFetch
    /\ geocode = IdleGeocode
    /\ scheduler = IdleScheduler
    /\ pools = IdlePools
    /\ schema = IdleSchema
    /\ fetchAll \in {FetchAllEnter(43200 - 7 * SecondsPerDay, 43200, upstream,
                                    geo) :
                       upstream \in FetchAllUpstreams, geo \in PipelineGeos}

\* the try block of one pass: getMaranhaoFireData(startDate, endDate) is
\* awaited, which requests every source; what it throws is caught and logged
FetchAllCallStep ==
    /\ fetchAll.pc = "call"
    /\ LET inner == FetchToEnd(FetchEnter(fetchAll.startDate,
                                          fetchAll.endDate, fetchAll.upstream,
                                          fetchAll.geo))
       IN fetchAll' = [fetchAll EXCEPT
              !.pc = "delay",
              !.events = @ \o SourcesOf(inner.requests),
              !.allFires = @ \o FetchResult(inner).fires]
    /\ UNCHANGED <<db, run, pipeline, nops, fetch, geocode, scheduler, pools,
                   schema>>

\* the delay that ends a pass; after the last source the function returns
FetchAllDelayStep ==
    /\ fetchAll.pc = "delay"
    /\ fetchAll' = [fetchAll EXCEPT
           !.events = Append(@, Delay),
           !.k = @ + 1,
           !.pc = IF fetchAll.k + 1 > Len(SATELLITE_SOURCES) THEN "returned"
                  ELSE "call"]
    /\ UNCHANGED <<db, run, pipeline, nops, fetch, geocode, scheduler, pools,
                   schema>>

NextFetchAll == FetchAllCallStep \/ FetchAllDelayStep

SpecFetchAll == InitFetchAll /\ [][NextFetchAll]_vars

\* ------------------------------------ the ingestion under a configuration
\* process.env.X of a variable that is not set
Undefined == "undefined"

\* the constructor copies NASA_FIRMS_API_KEY and NASA_FIRMS_API_BASE_URL
\* into the instance as they are
NasaService(env) ==
    [apiKey |-> env.NASA_FIRMS_API_KEY,
     baseUrl |-> env.NASA_FIRMS_API_BASE_URL]

\* new URL(`${this.baseUrl}/area/csv/${this.apiKey}/...`): the text
\* 'undefined/area/csv/...' has no scheme and the constructor throws, while
\* 'https://.../area/csv/undefined/...' is a URL like any other
IsURL(service) == service.baseUrl # Undefined

\* one pass of the loop of getMaranhaoFireData on an instance: what new URL
\* throws is caught by the function's try and rethrown
ConfiguredFetchLoop(service, f) ==
    IF f.k <= Len(SATELLITE_SOURCES) /\ ~IsURL(service)
    THEN [f EXCEPT !.pc = "thrown"]
    ELSE FetchLoop(f)

Environments ==
    {[NASA_FIRMS_API_KEY |-> key, NASA_FIRMS_API_BASE_URL |-> url] :
        key \in {"key", Undefined},
        url \in {"https://firms.modaps.eosdis.nasa.gov/api", Undefined}}

\* the last 7 days, as the script computes them, and a range whose start
\* lies after its end, as a caller of getMaranhaoFireData can pass
ConfiguredRanges ==
    {[startDate |-> 43200 - 7 * SecondsPerDay, endDate |-> 43200],
     [startDate |-> 43200, endDate |-> 43200 - 7 * SecondsPerDay]}

ConfiguredUpstreams ==
    {[s \in {SATELLITE_SOURCES[k] : k \in 1..Len(SATELLITE_SOURCES)} |->
         IF s = SATELLITE_SOURCES[1] THEN first ELSE HeaderOnly] :
     first \in {[kind |-> "ok", lines |-> <<Headers, GoodRow>>],
                [kind |-> "ok", lines |-> <<Headers, RowWith({6}, "n/a")>>],
                [kind |-> "http_error", lines |-> <<>>]}}

InitConfigured ==
    /\ db = EmptyDb
    /\ run = [r \in RunIds |-> IdleRun]
    /\ nops = 0
    /\ geocode = IdleGeocode
    /\ ServerIdle
    /\ \E env \in Environments, range \in ConfiguredRanges,
          upstream \in ConfiguredUpstreams, geo \in PipelineGeos :
           /\ pipeline = [upstream |-> upstream, fires |-> <<>>,
                          outcome |-> "none", service |-> NasaService(env)]
           /\ fetch = FetchEnter(range.startDate, range.endDate, upstream,
                                 geo)

\* await nasaService.getMaranhaoFireData(startDate, endDate), pass by pass
ConfiguredFetchStep ==
    /\ ~FetchEnded(fetch)
    /\ fetch' = ConfiguredFetchLoop(pipeline.service, fetch)
    /\ UNCHANGED <<db, run, pipeline, nops, geocode, scheduler, fetchAll,
                   pools, schema>>

\* what the script does with the settled fetch: exit(1) when it threw,
\* return when it brought nothing, saveFireData(fires, 'ALL_SOURCES') else
ConfiguredSave ==
    /\ FetchEnded(fetch)
    /\ pipeline.outcome = "none"
    /\ LET got == FetchResult(fetch)
           saved == SaveFireDataAs(1, db, got.fires, "ALL_SOURCES")
       IN IF got.thrown
          THEN /\ pipeline' = [pipeline EXCEPT !.outcome = "fetch failed"]
               /\ UNCHANGED <<db, run>>
          ELSE IF Len(got.fires) = 0
          THEN /\ pipeline' = [pipeline EXCEPT !.outcome = "nothing to save"]
               /\ UNCHANGED <<db, run>>
          ELSE /\ db' = saved.db
               /\ run' = [run EXCEPT ![1] = saved.l]
               /\ pipeline' = [pipeline EXCEPT
                                  !.fires = got.fires,
                                  !.outcome = IF saved.l.pc = "returned"
                                              THEN "saved" ELSE "save failed"]
    /\ UNCHANGED <<nops, fetch, geocode, scheduler, fetchAll, pools, schema>>

NextConfigured == ConfiguredFetchStep \/ ConfiguredSave

SpecConfigured == InitConfigured /\ [][NextConfigured]_vars

\* ------------------------------------------------------- the two pools
\* saveFireData, getFiresFromDatabase, getMunicipalities and saveWeatherData
\* take one client from one pool; /api/test/data takes one from each
Operations ==
    {"saveFireData", "getFiresFromDatabase", "getMunicipalities",
     "saveWeatherData", "testData"}

PoolOf(kind) == IF kind = "saveWeatherData" THEN "weather" ELSE "fire"

\* the finally block of /api/test/data
TestDataReleased(o, outcome) ==
    [o EXCEPT !.released.weather = @ + 1, !.released.fire = @ + 1,
              !.pc = "done", !.outcome = outcome]

\* the clients of a pool that are checked out
CheckedOut(pool) ==
    LET held(i) == pools[i].acquired[pool] - pools[i].released[pool]
        RECURSIVE Sum(_)
        Sum(i) == IF i = 0 THEN 0 ELSE held(i) + Sum(i - 1)
    IN Sum(MaxRequests)

InitPools ==
    /\ db = EmptyDb
    /\ run = [r \in RunIds |-> IdleRun]
    /\ pipeline = NoPipeline
    /\ nops = 0
    /\ fetch = IdleFetch
    /\ geocode = IdleGeocode
    /\ ServerIdle

Call(i, kind) ==
    /\ pools[i].pc = "idle"
    /\ pools' = [pools EXCEPT ![i].kind = kind, ![i].pc = "connect"]
    /\ UNCHANGED <<db, run, pipeline, nops, fetch, geocode, scheduler,
                   fetchAll, schema>>

\* const client = await this.pool.connect(), ahead of the try: when it
\* rejects the operation throws with nothing acquired. In /api/test/data
\* this is weatherClient = await weatherService.pool.connect()
Connect(i, ok) ==
    /\ pools[i].pc = "connect"
    /\ LET o == pools[i]
       IN pools' = [pools EXCEPT ![i] =
              IF ~ok
              THEN [o EXCEPT !.pc = "done",
                             !.outcome = IF o.kind = "testData" THEN "500"
                                         ELSE "threw"]
              ELSE IF o.kind = "testData"
              THEN [o EXCEPT !.acquired.weather = @ + 1,
                             !.pc = "connect fire"]
              ELSE [o EXCEPT !.acquired[PoolOf(o.kind)] = @ + 1,
                             !.pc = "query"]]
    /\ UNCHANGED <<db, run, pipeline, nops, fetch, geocode, scheduler,
                   fetchAll, schema>>

\* /api/test/data: fireClient = await nasaService.pool.connect(), still
\* ahead of the inner try: when it rejects, the outer catch answers 500 and
\* no finally block runs
ConnectFire(i, ok) ==
    /\ pools[i].pc = "connect fire"
    /\ pools' = [pools EXCEPT ![i] =
           IF ok THEN [pools[i] EXCEPT !.acquired.fire = @ + 1,
                                       !.pc = "query weather"]
           ELSE [pools[i] EXCEPT !.pc = "done", !.outcome = "500"]]
    /\ UNCHANGED <<db, run, pipeline, nops, fetch, geocode, scheduler,
                   fetchAll, schema>>

\* the try block of a single-pool operation settles, fulfilled or rejected,
\* and the finally block runs client.release()
Query(i, ok) ==
    /\ pools[i].pc = "query"
    /\ pools' = [pools EXCEPT ![i] =
           [pools[i] EXCEPT !.released[PoolOf(pools[i].kind)] = @ + 1,
                     !.pc = "done",
                     !.outcome = IF ok THEN "returned" ELSE "threw"]]
    /\ UNCHANGED <<db, run, pipeline, nops, fetch, geocode, scheduler,
                   fetchAll, schema>>

\* /api/test/data: await weatherClient.query(weatherQuery)
QueryWeather(i, ok) ==
    /\ pools[i].pc = "query weather"
    /\ pools' = [pools EXCEPT ![i] =
           IF ok THEN [pools[i] EXCEPT !.pc = "query fire"]
           ELSE TestDataReleased(pools[i], "500")]
    /\ UNCHANGED <<db, run, pipeline, nops, fetch, geocode, scheduler,
                   fetchAll, schema>>

\* /api/test/data: await fireClient.query(fireQuery, ...) and res.json
QueryFire(i, ok) ==
    /\ pools[i].pc = "query fire"
    /\ pools' = [pools EXCEPT ![i] =
           TestDataReleased(pools[i], IF ok THEN "200" ELSE "500")]
    /\ UNCHANGED <<db, run, pipeline, nops, fetch, geocode, scheduler,
                   fetchAll, schema>>

NextPools ==
    \E i \in OperationIds :
        \/ \E kind \in Operations : Call(i, kind)
        \/ \E ok \in BOOLEAN :
               \/ Connect(i, ok)
               \/ ConnectFire(i, ok)
               \/ Query(i, ok)
               \/ QueryWeather(i, ok)
               \/ QueryFire(i, ok)

SpecPools == InitPools /\ [][NextPools]_vars

\* ------------------------------------------------------ initializeTables
\* the statements of initializeTables in order, after the connect
InitializeStatements ==
    <<"BEGIN", "CREATE satellite_data", "CREATE fire_locations",
      "CREATE fire_incidents", "COMMIT">>

\* a rejection of the dropped promise has no handler: the runtime either
\* prints a warning and goes on, or ends the process
Rejections == {"warned", "crashed"}

InitializeRejected(c, rejection) ==
    [c EXCEPT !.init = "rejected",
              !.process = IF rejection = "crashed" THEN "crashed" ELSE @]

\* the caller of the instance calls saveFireData or getFiresFromDatabase
StoreOperations == {"saveFireData", "getFiresFromDatabase"}

\* new NasaService(): the constructor calls this.initializeTables() and
\* drops the promise; the function has run up to its first await
InitSchema ==
    /\ db = EmptyDb
    /\ run = [r \in RunIds |-> IdleRun]
    /\ pipeline = NoPipeline
    /\ nops = 0
    /\ fetch = IdleFetch
    /\ geocode = IdleGeocode
    /\ scheduler = IdleScheduler
    /\ fetchAll = IdleFetchAll
    /\ pools = IdlePools
    /\ schema \in {[IdleSchema EXCEPT !.init = "connect", !.fresh = fresh] :
                      fresh \in BOOLEAN}

\* const client = await this.pool.connect(), ahead of the try
InitializeConnect(ok, rejection) ==
    /\ schema.process = "running"
    /\ schema.init = "connect"
    /\ schema' = IF ok THEN [schema EXCEPT !.init = "query"]
                 ELSE InitializeRejected(schema, rejection)
    /\ UNCHANGED <<db, run, pipeline, nops, fetch, geocode, scheduler,
                   fetchAll, pools>>

\* the awaited statement schema.statement settles; after COMMIT the tables
\* are there and the client is released; a failure goes to the catch block
InitializeQuery(ok) ==
    /\ schema.process = "running"
    /\ schema.init = "query"
    /\ schema' =
           IF ~ok THEN [schema EXCEPT !.init = "rollback"]
           ELSE IF InitializeStatements[schema.statement] = "COMMIT"
           THEN [schema EXCEPT !.init = "done", !.committed = TRUE]
           ELSE [schema EXCEPT !.statement = @ + 1]
    /\ UNCHANGED <<db, run, pipeline, nops, fetch, geocode, scheduler,
                   fetchAll, pools>>

\* catch: await client.query('ROLLBACK'), then throw; finally release
InitializeRollback(rejection) ==
    /\ schema.process = "running"
    /\ schema.init = "rollback"
    /\ schema' = InitializeRejected(schema, rejection)
    /\ UNCHANGED <<db, run, pipeline, nops, fetch, geocode, scheduler,
                   fetchAll, pools>>

CallerCall(operation) ==
    /\ schema.process = "running"
    /\ schema.caller = "idle"
    /\ schema' = [schema EXCEPT !.caller = "connect",
                                !.operation = operation]
    /\ UNCHANGED <<db, run, pipeline, nops, fetch, geocode, scheduler,
                   fetchAll, pools>>

CallerConnect ==
    /\ schema.process = "running"
    /\ schema.caller = "connect"
    /\ schema' = [schema EXCEPT !.caller = "query"]
    /\ UNCHANGED <<db, run, pipeline, nops, fetch, geocode, scheduler,
                   fetchAll, pools>>

\* the first store query of the operation executes: the tables are there
\* when initializeTables has committed or the database had them already;
\* the caller sees what its own operation does, nothing else
CallerQuery ==
    /\ schema.process = "running"
    /\ schema.caller = "query"
    /\ schema' = [schema EXCEPT
           !.caller = "done",
           !.firstQuery = IF schema.committed THEN "after commit"
                          ELSE "before commit",
           !.observed = IF schema.committed \/ ~schema.fresh THEN "returned"
                        ELSE "relation does not exist"]
    /\ UNCHANGED <<db, run, pipeline, nops, fetch, geocode, scheduler,
                   fetchAll, pools>>

NextSchema ==
    \/ \E ok \in BOOLEAN, rejection \in Rejections :
           InitializeConnect(ok, rejection)
    \/ \E ok \in BOOLEAN : InitializeQuery(ok)
    \/ \E rejection \in Rejections : InitializeRollback(rejection)
    \/ \E operation \in StoreOperations : CallerCall(operation)
    \/ CallerConnect
    \/ CallerQuery

SpecSchema == InitSchema /\ [][NextSchema]_vars

\* ------------------------------------------------- scheduleWeatherUpdate
\* Local time is counted in milliseconds from a local midnight; days have
\* 24 hours (no daylight-saving change falls in the days followed).
MillisecondsPerDay == 86400000

\* millisecondsUntilMidnight: nextMidnight is today's 00:00:00.000, moved to
\* tomorrow only if now > nextMidnight
MillisecondsUntilMidnight(now) ==
    LET today == now - (now % MillisecondsPerDay)
        nextMidnight == IF now > today THEN today + MillisecondsPerDay
                        ELSE today
    IN nextMidnight - now

\* scheduleWeatherUpdate() called at the scheduler's current time: one more
\* setTimeout is pending
Schedule(s) ==
    [s EXCEPT !.timers =
        Append(@, [at |-> s.now,
                   delay |-> MillisecondsUntilMidnight(s.now)])]

\* the callback of a pending timer starts, late milliseconds after it is
\* due: fetchAndSaveWeatherData is in flight
Fired(s, i, late) ==
    LET due == s.timers[i].at + s.timers[i].delay + late
    IN [s EXCEPT !.now = IF due > s.now THEN due ELSE s.now,
                 !.timers = SubSeq(@, 1, i - 1) \o SubSeq(@, i + 1, Len(@)),
                 !.running = @ + 1,
                 !.fired = @ + 1]

\* a bug: the next update is not scheduled after a failed one
CompletedForgettingFailure(s, duration, outcome) ==
    LET done == [s EXCEPT !.now = @ + duration, !.running = @ - 1,
                          !.outcomes = Append(@, outcome)]
    IN IF outcome = "threw" THEN done ELSE Schedule(done)

\* a bug: the next update is scheduled in the try block and again after it
CompletedSchedulingTwice(s, duration, outcome) ==
    LET done == [s EXCEPT !.now = @ + duration, !.running = @ - 1,
                          !.outcomes = Append(@, outcome)]
    IN IF outcome = "threw" THEN Schedule(done)
       ELSE Schedule(Schedule(done))

\* fetchAndSaveWeatherData settles after a duration: the try block and the
\* catch block both end with scheduleWeatherUpdate()
Completed(s, duration, outcome) ==
    LET done == [s EXCEPT !.now = @ + duration, !.running = @ - 1,
                          !.outcomes = Append(@, outcome)]
    IN IF outcome = "threw" THEN Schedule(done) ELSE Schedule(done)

\* local times at which app.listen calls back: a midnight to the
\* millisecond, one millisecond after and before one, noon
ListenTimes == {0, 1, 43200000, MillisecondsPerDay - 1}

\* how late a timer callback starts, and how long an update takes
Latenesses == {0, 2}
Durations == {1, 30000}

InitScheduler ==
    /\ db = EmptyDb
    /\ run = [r \in RunIds |-> IdleRun]
    /\ pipeline = NoPipeline
    /\ nops = 0
    /\ fetch = IdleFetch
    /\ geocode = IdleGeocode
    /\ fetchAll = IdleFetchAll
    /\ pools = IdlePools
    /\ schema = IdleSchema
    /\ scheduler \in {[IdleScheduler EXCEPT !.now = t] : t \in ListenTimes}

\* app.listen(PORT, () => { scheduleWeatherUpdate(); })
Listen ==
    /\ scheduler.pc = "off"
    /\ scheduler' = Schedule([scheduler EXCEPT !.pc = "on"])
    /\ UNCHANGED <<db, run, pipeline, nops, fetch, geocode, fetchAll, pools,
                   schema>>

TimerFires(i, late) ==
    /\ scheduler.pc = "on"
    /\ scheduler.fired < MaxCycles
    /\ i \in 1..Len(scheduler.timers)
    /\ scheduler' = Fired(scheduler, i, late)
    /\ UNCHANGED <<db, run, pipeline, nops, fetch, geocode, fetchAll, pools,
                   schema>>

UpdateSettles(duration, outcome) ==
    /\ scheduler.running > 0
    /\ scheduler' = Completed(scheduler, duration, outcome)
    /\ UNCHANGED <<db, run, pipeline, nops, fetch, geocode, fetchAll, pools,
                   schema>>

NextScheduler ==
    \/ Listen
    \/ \E i \in 1..2, late \in Latenesses : TimerFires(i, late)
    \/ \E duration \in Durations, outcome \in {"resolved", "threw"} :
           UpdateSettles(duration, outcome)

SpecScheduler == InitScheduler /\ [][NextScheduler]_vars

\* ------------------------------------------------------------ observations
\* permutations of a sequence
RECURSIVE Perms(_)
Perms(q) ==
    IF Len(q) <= 1 THEN {q}
    ELSE UNION {{<<q[k]>> \o p :
                    p \in Perms(SubSeq(q, 1, k - 1) \o SubSeq(q, k + 1, Len(q)))} :
                k \in 1..Len(q)}

Coords(d) == {<<x.latitude, x.longitude>> : x \in d.fire_locations}

\* fire_locations without the generated ids
LocationContent(d) ==
    {[latitude |-> x.latitude, longitude |-> x.longitude, state |-> x.state,
      municipality |-> x.municipality] : x \in d.fire_locations}

LocationOf(d, f) == CHOOSE x \in d.fire_locations : x.id = f.location_id
SatelliteOf(d, f) == CHOOSE x \in d.satellite_data : x.id = f.satellite_id

\* the dedup key of an incident row, by value instead of by generated id
KeyOf(d, f) ==
    <<LocationOf(d, f).latitude, LocationOf(d, f).longitude,
      SatelliteOf(d, f).source, f.acquisition_date>>

IncidentKeys(d) == {KeyOf(d, f) : f \in d.fire_incidents}

\* fire_incidents without the generated ids
IncidentContent(d) ==
    {[key |-> KeyOf(d, f), brightness |-> f.brightness, scan |-> f.scan,
      track |-> f.track, frp |-> f.frp, daynight |-> f.daynight,
      type |-> f.type, version |-> f.version, confidence |-> f.confidence] :
     f \in d.fire_incidents}

\* the incident rows stored for a detection ingested under a source label
IncidentsFor(d, fire, source) ==
    {f \in d.fire_incidents :
        KeyOf(d, f) = <<fire.latitude, fire.longitude, source,
                        fire.acquisition_date>>}

\* the time of day an acq_time text denotes, in seconds
TimeOfDay(text) ==
    CASE text = "04:12:00" -> 15120
      [] text = "04:12:01" -> 15121
      [] OTHER -> 0

\* the instant a raw row reports: its acq_date day plus its acq_time
AcquisitionInstant(headers, values) ==
    DateOf(Field(headers, values, "acq_date"))
        + TimeOfDay(Field(headers, values, "acq_time"))

\* two well-formed rows of one payload: same coordinates inside the region,
\* same day inside the requested range, instants one second apart
OneSecondApart(headers, a, b) ==
    /\ Len(a) = Len(headers) /\ Len(b) = Len(headers)
    /\ Field(headers, a, "latitude") = Field(headers, b, "latitude")
    /\ Field(headers, a, "longitude") = Field(headers, b, "longitude")
    /\ ParseFloat(Field(headers, a, "latitude")) # NaN
    /\ ParseFloat(Field(headers, a, "longitude")) # NaN
    /\ ~OutsideBounds(ParseFloat(Field(headers, a, "latitude")),
                      ParseFloat(Field(headers, a, "longitude")))
    /\ Field(headers, a, "acq_date") = Field(headers, b, "acq_date")
    /\ DateOf(Field(headers, a, "acq_date")) = 0
    /\ AcquisitionInstant(headers, b) = AcquisitionInstant(headers, a) + 1

\* a saveFireData call has just run to its end (Spec)
Called == run'[1].n # run[1].n

Quiescent == \A r \in RunIds : run[r].pc \in {"idle", "returned", "thrown"}

\* ------------------------------------------------------------------ claims
\* C1: saveFireData(D, s) followed by saveFireData(D, s) completes both times
\* and the second call leaves the set of fire_incidents rows as the first
\* call left it.
C1_IdempotentOriginal ==
    [][(/\ Called
        /\ run[1].pc = "returned"
        /\ run'[1].fires = run[1].fires
        /\ run'[1].source = run[1].source)
       => (/\ run'[1].pc = "returned"
           /\ db'.fire_incidents = db.fire_incidents)]_vars

\* C2: when the satellite_data row of the source label already exists,
\* saveFireData reuses its id, creates no sensor row and processes the batch.
C2_SensorReuseOriginal ==
    [][(/\ Called
        /\ \E x \in db.satellite_data : x.source = run'[1].source)
       => (/\ run'[1].pc = "returned"
           /\ db'.satellite_data = db.satellite_data
           /\ \E x \in db.satellite_data :
                 x.source = run'[1].source /\ x.id = run'[1].satelliteId)]_vars

\* C3: in every reachable state, under any interleaving of saveFireData
\* runs, no two fire_incidents rows share (location_id, satellite_id,
\* acquisition_date).
C3_DedupKeyUnique ==
    \A a, b \in db.fire_incidents :
        (/\ a.location_id = b.location_id
         /\ a.satellite_id = b.satellite_id
         /\ a.acquisition_date = b.acquisition_date) => a = b

\* a run has ingested the same dedup key twice and one row stands for it
C3_Witness ==
    \E r \in RunIds :
        /\ run[r].pc = "returned"
        /\ Len(run[r].fires) = 2
        /\ run[r].fires[1] = run[r].fires[2]
        /\ Cardinality(IncidentsFor(db, run[r].fires[1], run[r].source)) = 1
        /\ Cardinality(db.fire_incidents) >= 2

\* C4: a fetchAndSaveData run served two detections at identical
\* coordinates from one source on the same day, one second apart, stores two
\* fire_incidents rows that reference one shared fire_locations row.
C4_TwoIncidentsOriginal ==
    pipeline.outcome = "saved" =>
        \A s \in DOMAIN pipeline.upstream :
            LET lines == pipeline.upstream[s].lines
            IN \A j, k \in 2..Len(lines) :
                  OneSecondApart(lines[1], lines[j], lines[k]) =>
                      \E x \in db.fire_locations :
                          /\ x.latitude = ParseFloat(Field(lines[1], lines[j],
                                                           "latitude"))
                          /\ x.longitude = ParseFloat(Field(lines[1], lines[j],
                                                            "longitude"))
                          /\ Cardinality({f \in db.fire_incidents :
                                            f.location_id = x.id}) >= 2

\* C5: a detection whose exact coordinates already have a fire_locations row
\* adds no location row and leaves that row unchanged, whatever locality
\* the detection carries.
C5_FirstWriteWins ==
    [][\A x \in db.fire_locations :
          /\ x \in db'.fire_locations
          /\ \A y \in db'.fire_locations :
                (y.latitude = x.latitude /\ y.longitude = x.longitude)
                   => y = x]_vars

\* a completed call carried a detection whose locality differs from the one
\* stored for its coordinates
C5_Witness ==
    /\ run[1].pc = "returned"
    /\ \E k \in 1..Len(run[1].fires) : \E x \in db.fire_locations :
          /\ x.latitude = run[1].fires[k].latitude
          /\ x.longitude = run[1].fires[k].longitude
          /\ x.municipality = "Imperatriz"
          /\ run[1].fires[k].municipality = Null

\* C6: no statement of any saveFireData run changes or deletes an existing
\* fire_incidents row; the set of rows only grows.
C6_IncidentsImmutable ==
    [][\A f \in db.fire_incidents : f \in db'.fire_incidents]_vars

\* a completed run re-ingested a stored dedup key with other measurements
C6_Witness ==
    \E r \in RunIds :
        /\ run[r].pc = "returned"
        /\ \E k \in 1..Len(run[r].fires) :
              \E f \in IncidentsFor(db, run[r].fires[k], run[r].source) :
                  /\ f.brightness # run[r].fires[k].brightness
                  /\ f.confidence # run[r].fires[k].confidence

C8_ConcurrentSafeOriginal ==
    (\A r \in RunIds : run[r].pc = "returned")
    => \A r \in RunIds : \A k \in 1..Len(run[r].fires) :
          run[r].fires[k].acquisition_date # NaN
             => Cardinality(IncidentsFor(db, run[r].fires[k],
                                         run[r].source)) = 1

\* C9: running saveFireData on any permutation of a batch from the same
\* store yields the same location rows (with locality) and the same
\* incident rows, generated ids aside.
C9_OrderIndependentOriginal ==
    [][Called =>
          \A p \in Perms(run'[1].fires) :
              LET other == SaveFireData(db, p, run'[1].source).db
              IN /\ LocationContent(other) = LocationContent(db')
                 /\ IncidentContent(other) = IncidentContent(db')]_vars

\* C9 amended: every permutation of a batch yields the same set of location
\* coordinates and the same set of incident dedup keys.
C9_OrderIndependentKeys ==
    [][Called =>
          \A p \in Perms(run'[1].fires) :
              LET other == SaveFireData(db, p, run'[1].source).db
              IN /\ Coords(other) = Coords(db')
                 /\ IncidentKeys(other) = IncidentKeys(db')]_vars

\* a completed call whose batch holds two detections of one dedup key that
\* differ in locality and measurements, after a detection that failed
C9_Witness ==
    /\ run[1].pc = "returned"
    /\ Len(run[1].fires) = 2
    /\ run[1].fires[1] # run[1].fires[2]
    /\ run[1].fires[1].latitude = run[1].fires[2].latitude
    /\ run[1].fires[1].acquisition_date = run[1].fires[2].acquisition_date
    /\ run[1].fires[1].municipality # run[1].fires[2].municipality
    /\ Cardinality(db.fire_incidents) >= 1

\* C10: when the per-detection sequence fails part-way, the store keeps no
\* effect of that detection: no fire_locations row is left without an
\* incident once the runs have ended.
C10_AtomicOriginal ==
    Quiescent =>
        \A x \in db.fire_locations :
            \E f \in db.fire_incidents : f.location_id = x.id

\* the rows the first source served to the last pipeline run
ServedRows(p) ==
    IF p.outcome = "none" THEN {}
    ELSE LET lines == p.upstream[SATELLITE_SOURCES[1]].lines
         IN {lines[k] : k \in 2..Len(lines)}

\* C11: after any sequence of pipeline runs, whatever the sources served,
\* every fire_locations row lies inside MARANHAO_STATE_BOUNDS.
C11_BoundingFilter ==
    \A x \in db.fire_locations :
        /\ MARANHAO_STATE_BOUNDS.south <= x.latitude
        /\ x.latitude <= MARANHAO_STATE_BOUNDS.north
        /\ MARANHAO_STATE_BOUNDS.west <= x.longitude
        /\ x.longitude <= MARANHAO_STATE_BOUNDS.east

\* a run was served a row east of the region next to a row inside it, and
\* saved
C11_Witness ==
    /\ pipeline.outcome = "saved"
    /\ RowWith({2}, "-40.0") \in ServedRows(pipeline)
    /\ GoodRow \in ServedRows(pipeline)
    /\ db.fire_locations # {}

\* the sources whose request failed, answered by an empty table instead
WithoutFailures(upstream) ==
    [s \in DOMAIN upstream |->
        IF upstream[s].kind = "ok" THEN upstream[s] ELSE HeaderOnly]

\* C12: in one getMaranhaoFireData run a failed request for one source (a
\* non-2xx response, or an error raised by fetch) does not abort the run:
\* the run returns, every source has been requested, and the detections of
\* the sources that answered are returned.
C12_FetchFailureIsolatedOriginal ==
    FetchEnded(fetch) =>
        /\ fetch.pc = "returned"
        /\ Len(fetch.requests) = Len(SATELLITE_SOURCES)
        /\ fetch.allFires =
               getMaranhaoFireData(fetch.startDate, fetch.endDate,
                                   WithoutFailures(fetch.upstream),
                                   fetch.geo).fires

\* C13: a call with a date range wider than the 10-day window of the
\* service issues no request for the over-wide range.
C13_DateWindowOriginal ==
    DayOf(fetch.endDate) - DayOf(fetch.startDate) > DayRange
        => \A k \in 1..Len(fetch.requests) :
               fetch.requests[k].end - fetch.requests[k].begin <= DayRange

\* C14: every detection getMaranhaoFireData(startDate, endDate) returns
\* has an acquisition date d that is a date with startDate <= d <= endDate.
C14_DateRangeFilterOriginal ==
    fetch.pc = "returned" =>
        \A k \in 1..Len(fetch.allFires) :
            LET d == fetch.allFires[k].acquisition_date
            IN d # NaN /\ fetch.startDate <= d /\ d <= fetch.endDate

\* the rows served for a source, header aside
RowsServed(upstream, source) ==
    IF upstream[source].kind = "ok"
    THEN {upstream[source].lines[k] : k \in 2..Len(upstream[source].lines)}
    ELSE {}

\* every row served by any source
AllRowsServed(upstream) ==
    UNION {RowsServed(upstream, s) : s \in DOMAIN upstream}

\* lines with the rows of a set left out
RECURSIVE Keep(_, _)
Keep(lines, dropped) ==
    IF Len(lines) = 0 THEN <<>>
    ELSE (IF lines[1] \in dropped THEN <<>> ELSE <<lines[1]>>)
         \o Keep(SubSeq(lines, 2, Len(lines)), dropped)

\* the payloads with the rows of a set left out
Without(upstream, dropped) ==
    [s \in DOMAIN upstream |->
        IF upstream[s].kind = "ok"
        THEN [upstream[s] EXCEPT !.lines =
                 <<@[1]>> \o Keep(SubSeq(@, 2, Len(@)), dropped)]
        ELSE upstream[s]]

\* a latitude or longitude field that is empty or has no leading number
MalformedCoordinates(row) ==
    /\ Len(row) >= 2
    /\ \/ row[1] = "" \/ ParseFloat(row[1]) = NaN
       \/ row[2] = "" \/ ParseFloat(row[2]) = NaN

\* C15: a raw row whose latitude or longitude field is empty or not
\* parseable as a number produces no detection: what a run returns is what
\* it returns for the same payloads without those rows.
C15_MalformedCoordinatesDropped ==
    fetch.pc = "returned" =>
        fetch.allFires =
            getMaranhaoFireData(fetch.startDate, fetch.endDate,
                                Without(fetch.upstream,
                                        {row \in AllRowsServed(fetch.upstream) :
                                            MalformedCoordinates(row)}),
                                fetch.geo).fires

\* a run returned the detection of a good row served next to a row with
\* an empty latitude and a row with a non-numeric longitude
C15_Witness ==
    /\ fetch.pc = "returned"
    /\ RowsServed(fetch.upstream, SATELLITE_SOURCES[1])
           \in {{GoodRow, RowWith({1}, "")}, {GoodRow, RowWith({2}, "abc")}}
    /\ Len(fetch.allFires) = 1

\* the first source served one good row and one row with a field too few
\* or too many, in either order, and the other sources no row
OneGoodOneMismatched(f) ==
    LET lines == f.upstream[SATELLITE_SOURCES[1]].lines
    IN /\ f.upstream[SATELLITE_SOURCES[1]].kind = "ok"
       /\ Len(lines) = 3
       /\ \E i, j \in 2..3 :
             /\ lines[i] = GoodRow
             /\ Len(lines[j]) # Len(lines[1])
       /\ \A k \in 2..Len(SATELLITE_SOURCES) :
             RowsServed(f.upstream, SATELLITE_SOURCES[k]) = {}

\* C16: a raw row whose number of fields differs from the header's is
\* skipped without affecting the other rows: a run returns what it returns
\* for the same payloads without those rows, and exactly one detection for
\* a payload of one well-formed in-range row and one mismatched row.
C16_MismatchedRowsSkipped ==
    fetch.pc = "returned" =>
        /\ fetch.allFires =
               getMaranhaoFireData(
                   fetch.startDate, fetch.endDate,
                   Without(fetch.upstream,
                           {row \in AllRowsServed(fetch.upstream) :
                               Len(row) # Len(Headers)}),
                   fetch.geo).fires
        /\ OneGoodOneMismatched(fetch) => Len(fetch.allFires) = 1

\* a run over one good row and one mismatched row has returned
C16_Witness ==
    /\ fetch.pc = "returned"
    /\ OneGoodOneMismatched(fetch)
    /\ Len(fetch.allFires) = 1

\* a row with the header's number of fields, coordinates inside the region
\* and a date inside both requested ranges
ValidDateAndCoordinates(row) ==
    /\ Len(row) = Len(Headers)
    /\ row[1] = "-5.0" /\ row[2] = "-45.0" /\ row[6] = "2024-01-01"

ZeroIfNaN(x) == IF x = NaN THEN 0 ELSE x

\* C17: for rows with a valid in-range date and in-bounds coordinates, an
\* unparseable brightness, scan, track, frp or confidence field does not
\* drop the row: one detection per row is returned, in order, with that
\* field 0 and every other field as parsed.
C17_ParseOrDefault ==
    LET lines == fetch.upstream[SATELLITE_SOURCES[1]].lines
    IN (/\ fetch.pc = "returned"
        /\ fetch.upstream[SATELLITE_SOURCES[1]].kind = "ok"
        /\ \A k \in 2..Len(lines) : ValidDateAndCoordinates(lines[k])
        /\ \A k \in 2..Len(SATELLITE_SOURCES) :
              RowsServed(fetch.upstream, SATELLITE_SOURCES[k]) = {})
       => /\ Len(fetch.allFires) = Len(lines) - 1
          /\ \A i \in 1..Len(fetch.allFires) :
                LET row == lines[i + 1]
                    fire == fetch.allFires[i]
                IN /\ fire.brightness = ZeroIfNaN(ParseFloat(row[3]))
                   /\ fire.scan = ZeroIfNaN(ParseFloat(row[4]))
                   /\ fire.track = ZeroIfNaN(ParseFloat(row[5]))
                   /\ fire.confidence = ZeroIfNaN(ParseInt(row[10]))
                   /\ fire.frp = ZeroIfNaN(ParseFloat(row[13]))
                   /\ fire.latitude = ParseFloat(row[1])
                   /\ fire.longitude = ParseFloat(row[2])
                   /\ fire.acquisition_date = DateOf(row[6])
                   /\ fire.satellite = row[8]
                   /\ fire.instrument = row[9]
                   /\ fire.daynight = row[14]

\* a run returned two detections: one of a row whose brightness alone is
\* not a number, one of a row whose five measurements are all not numbers
C17_Witness ==
    /\ fetch.pc = "returned"
    /\ fetch.upstream[SATELLITE_SOURCES[1]].kind = "ok"
    /\ fetch.upstream[SATELLITE_SOURCES[1]].lines =
           <<Headers, RowWith({3}, "abc"), RowWith({3, 4, 5, 10, 13}, "n")>>
    /\ Len(fetch.allFires) = 2
    /\ fetch.allFires[1].brightness = 0
    /\ fetch.allFires[1].frp = 12000
    /\ fetch.allFires[2].confidence = 0

\* the point of the activation lies inside the region, borders included
InRegion(g) ==
    /\ MARANHAO_STATE_BOUNDS.south <= g.latitude
    /\ g.latitude <= MARANHAO_STATE_BOUNDS.north
    /\ MARANHAO_STATE_BOUNDS.west <= g.longitude
    /\ g.longitude <= MARANHAO_STATE_BOUNDS.east

\* C18: for a coordinate outside MARANHAO_STATE_BOUNDS reverseGeocode
\* issues no reverse-geocoding request at any point of its run, and it
\* returns null.
C18_BoundsCheckFirst ==
    (geocode.pc # "idle" /\ ~InRegion(geocode))
        => /\ geocode.requests = 0
           /\ geocode.pc \in {"bounds", "returned"}
           /\ geocode.pc = "returned" => geocode.result = NoLocality

\* an activation for a point just north of the region has returned null
\* over a non-empty index without a request
C18_Witness ==
    /\ geocode.pc = "returned"
    /\ geocode.latitude = MARANHAO_STATE_BOUNDS.north + 1
    /\ Len(geocode.index) > 0
    /\ geocode.requests = 0
    /\ geocode.result = NoLocality

\* C19: for a coordinate inside the region and a non-empty Locality Index,
\* whatever the geocoding request comes to (non-2xx, an error thrown, a
\* malformed body, an address matching no indexed locality), reverseGeocode
\* throws nothing and returns a locality.
C19_FallbackComplete ==
    (geocode.pc # "idle" /\ InRegion(geocode) /\ Len(geocode.index) > 0)
        => /\ geocode.pc # "thrown"
           /\ geocode.pc = "returned" => geocode.result # NoLocality

\* an activation inside the region whose request was rejected has returned
\* a locality
C19_Witness ==
    /\ geocode.pc = "returned"
    /\ InRegion(geocode)
    /\ geocode.reply.kind = "network_error"
    /\ geocode.requests = 1
    /\ geocode.result # NoLocality

\* the activation ended through the scan of the index
FellBack(g) ==
    /\ g.pc = "returned"
    /\ InRegion(g)
    /\ Len(g.index) > 0
    /\ MatchingCities(g) = {}

\* C20: whenever reverseGeocode falls back, it returns the earliest
\* locality of the index among those at minimum Euclidean distance (in raw
\* degrees) from the point.
C20_NearestNeighbour ==
    FellBack(geocode) =>
        \E k \in 1..Len(geocode.index) :
            LET d(j) == SquaredDistance(geocode.latitude, geocode.longitude,
                                        geocode.index[j])
            IN /\ geocode.result =
                      [state |-> "MA", municipality |-> geocode.index[k].name]
               /\ \A j \in 1..Len(geocode.index) : ~DistanceLess(d(j), d(k))
               /\ \A j \in 1..(k - 1) : DistanceLess(d(k), d(j))

\* a fallback over an index whose two localities are at the same distance
\* from the point returned the first of them
C20_Witness ==
    /\ FellBack(geocode)
    /\ Len(geocode.index) = 2
    /\ SquaredDistance(geocode.latitude, geocode.longitude, geocode.index[1])
           = SquaredDistance(geocode.latitude, geocode.longitude,
                             geocode.index[2])
    /\ geocode.result.municipality = geocode.index[1].name

\* the indexed localities named by the city, town or village field
NamedLocalities(g) ==
    {k \in 1..Len(g.index) :
        \E name \in {"city", "town", "village"} :
            /\ name \in DOMAIN g.reply
            /\ g.reply[name] # Null
            /\ toLowerCase(g.reply[name]) = toLowerCase(g.index[k].name)}

\* what the scan of the index gives for the point of an activation
NearestLocality(g) ==
    LET closest == ClosestCityIn(g.index, g.latitude, g.longitude, 1, 0)
    IN IF closest = 0 THEN NoLocality
       ELSE [state |-> "MA", municipality |-> g.index[closest].name]

\* C21: when the geocoding call succeeds and the city, town or village
\* field of its address equals, ignoring case, the name of an indexed
\* locality, reverseGeocode returns that locality with state MA; when none
\* of those fields matches, it returns the nearest-neighbour result.
C21_PrimaryResolutionOriginal ==
    (geocode.pc = "returned" /\ InRegion(geocode)
     /\ geocode.reply.kind = "address")
        => IF NamedLocalities(geocode) # {}
           THEN \E k \in NamedLocalities(geocode) :
                    geocode.result =
                        [state |-> "MA",
                         municipality |-> geocode.index[k].name]
           ELSE geocode.result = NearestLocality(geocode)

\* C26: whenever saveFireData returns normally, its result is the length of
\* the batch it was handed, whatever became of the detections.
C26_ReturnsBatchLength ==
    \A r \in RunIds :
        run[r].pc = "returned" => run[r].result = Len(run[r].fires)

\* a run over two detections returned 2 although one of them failed and
\* the store holds a single incident
C26_Witness ==
    \E r \in RunIds :
        /\ run[r].pc = "returned"
        /\ Len(run[r].fires) = 2
        /\ run[r].failures = 1
        /\ run[r].result = 2
        /\ Cardinality(db.fire_incidents) = 1

\* C22: from app.listen on, the scheduler is never idle with no timer
\* pending: after every update started by the timer, whether it resolved or
\* threw, a next timer is scheduled.
C22_AlwaysRescheduled ==
    scheduler.pc = "on" =>
        /\ scheduler.running > 0 \/ Len(scheduler.timers) > 0
        /\ Len(scheduler.outcomes) > 0 /\ scheduler.running = 0
              => Len(scheduler.timers) > 0

\* an update that threw has been followed by one that resolved, and a timer
\* is pending again
C22_Witness ==
    /\ scheduler.outcomes = <<"threw", "resolved">>
    /\ scheduler.running = 0
    /\ Len(scheduler.timers) = 1

\* C27: the delay of every timer scheduleWeatherUpdate sets is greater than
\* 0, at most 24 hours, and ends at a local midnight.
C27_DelayToNextMidnightOriginal ==
    \A i \in 1..Len(scheduler.timers) :
        LET t == scheduler.timers[i]
        IN /\ t.delay > 0
           /\ t.delay <= MillisecondsPerDay
           /\ (t.at + t.delay) % MillisecondsPerDay = 0

\* C28: at most one daily timer is pending at any time, no timer is pending
\* while an update is in flight, and two updates are never in flight
\* together.
C28_SingleTimer ==
    Len(scheduler.timers) + scheduler.running <= 1

\* the timer has fired MaxCycles times, after updates that resolved and
\* updates that threw, and a single timer is pending
C28_Witness ==
    /\ scheduler.fired = MaxCycles
    /\ \E i, j \in 1..Len(scheduler.outcomes) :
          scheduler.outcomes[i] = "threw" /\ scheduler.outcomes[j] = "resolved"
    /\ Len(scheduler.timers) = 1

\* how often a source was requested in a run of fetchAllSatelliteData
TimesRequested(a, source) ==
    Cardinality({i \in 1..Len(a.events) : a.events[i] = source})

\* C23: in one run of the fetch stage every source of SATELLITE_SOURCES is
\* requested exactly once.
C23_OneRequestPerSourceOriginal ==
    fetchAll.pc = "returned" =>
        \A k \in 1..Len(SATELLITE_SOURCES) :
            TimesRequested(fetchAll, SATELLITE_SOURCES[k]) = 1

\* C24: within one run a delay step occurs between the request for one
\* source and the request for the next: no two requests follow each other
\* without a delay in between.
C24_DelayBetweenSourcesOriginal ==
    \A i \in 1..(Len(fetchAll.events) - 1) :
        fetchAll.events[i] = Delay \/ fetchAll.events[i + 1] = Delay

\* the configuration errors of C25 that the model carries: a missing
\* credential or base URL, a date range whose start lies after its end
Misconfigured ==
    \/ pipeline.service.apiKey = Undefined
    \/ pipeline.service.baseUrl = Undefined
    \/ fetch.startDate > fetch.endDate

\* C25: under a configuration error the ingestion refuses to run: no
\* upstream request is issued and no row is written.
C25_ConfigurationFatalOriginal ==
    Misconfigured => fetch.requests = <<>> /\ db = EmptyDb

\* C29: an operation that has completed has released every client it
\* acquired exactly once, and when no operation is in flight no client of
\* either pool is checked out.
C29_PoolBalanceOriginal ==
    /\ \A i \in OperationIds :
           pools[i].pc = "done" => pools[i].released = pools[i].acquired
    /\ (\A i \in OperationIds : pools[i].pc \in {"idle", "done"}) =>
           CheckedOut("weather") = 0 /\ CheckedOut("fire") = 0

\* C30: when the first store query of saveFireData or getFiresFromDatabase
\* executes, initializeTables of the same instance has committed; and once
\* initializeTables has failed, a caller whose operation has ended has
\* observed a failure.
C30_SchemaBeforeUseOriginal ==
    /\ schema.firstQuery # "none" => schema.firstQuery = "after commit"
    /\ (schema.init = "rejected" /\ schema.caller = "done") =>
           schema.observed # "returned"

====
